---- MODULE Spec2Model ----
(***************************************************************************)
(* Model of the neuro-symbolic classifier                                  *)
(*   src/implementation/src/models/neuro_symbolic_classifier.py            *)
(*   src/implementation/src/core/base/__init__.py                          *)
(* of the experiment tracker                                               *)
(*   src/implementation/src/utils/experiment_tracking.py                   *)
(* and of the two HTTP services                                            *)
(*   src/implementation/src/main.py                                        *)
(*   src/education/platform/backend/src/main.py                            *)
(*                                                                         *)
(* Abstractions                                                            *)
(*  - a feature row is summarised by one scalar (0, 1 or NaN); the number  *)
(*    of columns is a field of the array;                                  *)
(*  - the trainable parameters are summarised by the number of optimizer   *)
(*    updates applied since construction, or NaN once an update with a     *)
(*    non-finite loss has been applied;                                    *)
(*  - parameter .grad buffers are summarised by the number of backward     *)
(*    passes accumulated since the last zero_grad;                         *)
(*  - torch.randn (SimpleReasoner.reason) is a nondeterministic draw from  *)
(*    SymVals; a 1-D tensor is its length and one scalar for its entries;  *)
(*  - probabilities are integers in thousandths;                           *)
(*  - self.train() / self.eval() / self.parameters() are given the         *)
(*    torch.nn.Module meaning (mode flag of the sub-modules, the encoder   *)
(*    and fusion parameters); the classes of src/ do not define them.      *)
(*  - Init of Spec / SpecShared is the state the body of __init__ assigns  *)
(*    (lines 43-59): the constructor itself is modelled by construct and   *)
(*    checked under SpecConstruct.                                         *)
(*  - mlflow is the library behind the tracker: a stack of at most one     *)
(*    active run, a status and a set of logged kinds per run; each of its  *)
(*    calls may raise (the tracking server is remote);                     *)
(*  - an HTTP response is its status code and detail; an exception that    *)
(*    leaves a handler is answered by the global exception handler (500);  *)
(*  - the services are modelled from the state their startup leaves.       *)
(***************************************************************************)
EXTENDS Integers, Sequences, FiniteSets, TLC

VARIABLES
    config,      \* the Configuration dict shared by the instances (BaseModel.config)
    heap,        \* Python list objects holding rules: list id -> sequence of rules
    rules_ref,   \* rules_ref[m]: id of the list object SimpleReasoner.rules of instance m
    is_trained,  \* BaseModel.is_trained, per instance
    training,    \* train/eval mode flag of the instance's modules (TRUE = train mode)
    weights,     \* encoder + fusion parameters, per instance
    grads,       \* accumulated parameter gradients (.grad), per instance
    pc,          \* position of the fit call of each instance
    fitX,        \* fit's local X_tensor / dataset
    epoch,       \* fit's loop variable epoch
    todo,        \* rows of the current epoch the DataLoader iterator has not yielded yet
    loss,        \* fit's local loss of the current batch
    steps,       \* optimizer.step() calls of fit's local optimizer (Adam's step count)
    current_run, \* ExperimentTracker.current_run (0: None, else the run id)
    mlflow,      \* the mlflow library: active run, status and logged kinds per run
    exp,         \* the frame of ExperimentManager.run_experiment
    mock_users,  \* education service: the list mock_users
    ml_components,        \* API service: the dict ml_components, as the set of its keys
    database_connection,  \* API service: the global database_connection
    ret          \* what the step just taken returned or raised to its caller (NoRet: nothing)

\* The variables of the classifier, of the tracker and of the services.
model == <<config, heap, rules_ref, is_trained, training, weights, grads,
           pc, fitX, epoch, todo, loss, steps>>
tracker == <<current_run, mlflow, exp>>
services == <<mock_users, ml_components, database_connection>>

vars == <<model, tracker, services, ret>>

(* ------------------------------ bounds -------------------------------- *)
MaxN == 2          \* rows of a dataset given to fit, and config['batch_size']
MaxEpochs == 2     \* config['epochs']
MaxUpdates == 4    \* optimizer updates applied to one instance
MaxGrad == 2       \* backward passes accumulated without zero_grad
MaxRules == 2      \* length of a rule list

NaN == 0 - 1       \* a non-finite float

Instances == {1, 2}
CfgList == 0                     \* list object of config['symbolic_rules']
SymVals == {0, 1}                \* abstract value of torch.randn(output_size)
Rule == {"a", "b"}

RECURSIVE SeqsUpTo(_, _)
SeqsUpTo(S, n) ==
    IF n = 0 THEN {<<>>}
    ELSE LET T == SeqsUpTo(S, n - 1)
         IN  T \cup {Append(t, x) : t \in {u \in T : Len(u) = n - 1}, x \in S}

\* Input arrays.  input_size is 1 in every Configuration drawn, so width 2 is the
\* mismatching width.
Array(rows, width) == [rows |-> rows, width |-> width]
Batches ==       \* arrays given to the read operations: one or two rows
    {Array(<<x>>, 1) : x \in {0, 1}} \cup {Array(<<x, y>>, 1) : x \in {0, 1}, y \in {0, 1}}
        \cup {Array(<<NaN>>, 1), Array(<<0>>, 2)}
FitData ==       \* arrays given to fit
    {Array(r, 1) : r \in SeqsUpTo({0, NaN}, MaxN) \ {<<>>}} \cup {Array(<<0>>, 2)}
SmallBatches == {Array(<<1>>, 1), Array(<<1>>, 2)}
SmallFitData == {Array(<<0>>, 1), Array(<<0, NaN>>, 1)}
RuleLists == SeqsUpTo(Rule, MaxRules)

OutputSize == 32     \* SimpleReasoner.output_size

\* A tensor of one axis: its length and the scalar that summarises its entries.
Vec(n, v) == [len |-> n, val |-> v]

\* A result dict of the reasoner: the set of its keys and their values (the value
\* of an absent key is a placeholder no definition reads).
NoResult == [keys |-> {}, facts |-> <<>>, query |-> "", rules_applied |-> <<>>,
             features |-> Vec(0, 0), steps |-> <<>>, confidence |-> 0]

\* The integrated_explanation dict of explain (the entries taken from the reasoner).
NoIntegrated == [symbolic_rules |-> <<>>, confidence |-> 0]

\* The arguments of a request to one of the services.
NoToken == [alg |-> "", sub |-> ""]
NoRequest == [username |-> "", email |-> "", password |-> "", user_id |-> 0,
              credentials |-> NoToken, model_name |-> "", explanation_required |-> FALSE]

NoX == [rows |-> <<>>, width |-> 0]
NoRet == [m |-> 0, op |-> "none", exc |-> "none", X |-> NoX,
          labels |-> <<>>, probs |-> <<>>, rules |-> <<>>, score |-> <<>>,
          noise |-> <<>>, symbolic |-> <<>>, result |-> NoResult, updates |-> 0,
          calls |-> <<>>, integrated |-> NoIntegrated, text |-> <<>>,
          status |-> 0, detail |-> "", run_id |-> 0, request |-> NoRequest,
          access_token |-> NoToken, user |-> <<>>, health |-> "", components |-> <<>>]

Min(a, b) == IF a < b THEN a ELSE b

(* ------------------------- SimpleReasoner ----------------------------- *)
\* Mutant of reason: a query that is not "classify" is answered as an explain query.
reason_ElseExplains(facts, query, s) ==
    LET results == [NoResult EXCEPT !.keys = {"facts", "query", "rules_applied"},
                                    !.facts = facts, !.query = query]
    IN  IF query = "classify"
        THEN [results EXCEPT !.keys = @ \cup {"features"},
                             !.features = Vec(OutputSize, s)]
        ELSE [results EXCEPT !.keys = @ \cup {"steps", "confidence"},
                             !.rules_applied = <<"rule_1", "rule_2">>,
                             !.steps = <<"Analyze features", "Apply rules", "Conclude">>,
                             !.confidence = 85]

\* reason(facts, query): the result dict.  s is the value torch.randn produces
\* for this call.
reason(facts, query, s) ==
    LET results == [NoResult EXCEPT !.keys = {"facts", "query", "rules_applied"},
                                    !.facts = facts, !.query = query]
    IN  IF query = "classify"
        THEN [results EXCEPT !.keys = @ \cup {"features"},
                             !.features = Vec(OutputSize, s)]
        ELSE IF query = "explain_classification"
        THEN [results EXCEPT !.keys = @ \cup {"steps", "confidence"},
                             !.rules_applied = <<"rule_1", "rule_2">>,
                             !.steps = <<"Analyze features", "Apply rules", "Conclude">>,
                             !.confidence = 85]
        ELSE results

(* --------------------------- forward pass ----------------------------- *)
\* Fused logits of one row: w the parameters, x the feature value, e the sign of
\* a perturbation far smaller than the feature unit, s the symbolic vector.
\* Any non-finite operand makes both logits non-finite.
Logits(w, x, e, s) ==
    IF w = NaN \/ x = NaN THEN <<NaN, NaN>>
    ELSE <<2 * (w + x) + e, 2 * (2 * s + 1)>>

\* _forward_pass: one reason("classify") call per row, its "features" value (or
\* the zero vector when the key is missing) fused with the encoder output.
\* Mutant of symbolic_features: the default of a missing vector is the empty tensor.
symbolic_features_NoDefault(r) ==
    IF "features" \in r.keys THEN r.features ELSE Vec(0, 0)

\* symbolic_output.get("features", torch.zeros(get_output_size())): the vector of
\* a reasoner result that _forward_pass stacks for the integration layer.
symbolic_features(r) ==
    IF "features" \in r.keys THEN r.features ELSE Vec(OutputSize, 0)

\* The symbolic vectors of a batch: one reason("classify") call per row.
symbolic_outputs(rows, draws) ==
    [i \in 1..Len(rows) |-> symbolic_features(reason(<<rows[i]>>, "classify", draws[i]))]

\* torch.stack(symbolic_features): the tensor the integration layer receives, as
\* the lengths of its rows.
Stacked(rows, draws) == [i \in 1..Len(rows) |-> symbolic_outputs(rows, draws)[i].len]

_forward_pass(w, rows, noise, draws) ==
    [i \in 1..Len(rows) |->
        Logits(w, rows[i], noise[i], symbolic_outputs(rows, draws)[i].val)]

\* Class labels: the indices of the num_classes logits of the last Linear
\* (num_classes is 2 in every Configuration drawn).
Classes == {0, 1}

\* Mutant of ArgMax: the position of the maximum counted from one.
ArgMax_OneBased(l) == IF l[1] = NaN THEN 1 ELSE IF l[2] > l[1] THEN 2 ELSE 1

\* torch.argmax over the class axis: first maximal index, NaN counting as maximal.
ArgMax(l) == IF l[1] = NaN THEN 0 ELSE IF l[2] > l[1] THEN 1 ELSE 0

\* torch.softmax over the class axis, in thousandths (base 2 stands for base e).
Softmax(l) ==
    IF l[1] = NaN THEN <<NaN, NaN>>
    ELSE LET a == 2 ^ l[1]
             b == 2 ^ l[2]
         IN  <<(a * 1000) \div (a + b), (b * 1000) \div (a + b)>>

NoNoise(rows) == [i \in 1..Len(rows) |-> 0]
Draws(rows) == [1..Len(rows) -> SymVals]

(* ------------------------------- Init --------------------------------- *)
MaxRuns == 1       \* runs created in the tracking store

RunIds == 1..MaxRuns
None == "None"

\* The mlflow library before any run, ExperimentTracker.__init__ (current_run =
\* None) and no run_experiment call in progress.
NoExp == [pc |-> 0, run_id |-> 0, artifacts |-> 0]
InitTracker ==
    /\ current_run = 0
    /\ mlflow = [active |-> 0,
                 status |-> [r \in RunIds |-> "NONE"],
                 logged |-> [r \in RunIds |-> {}],
                 ended |-> [r \in RunIds |-> 0]]
    /\ exp = NoExp

\* The module globals of the two services after startup: mock_users = [],
\* ml_components = {} and database_connection = None (the loaders are placeholders).
InitServices ==
    /\ mock_users = <<>>
    /\ ml_components = {}
    /\ database_connection = None

\* BaseModel.__init__ and NeuroSymbolicClassifier.__init__ for every instance built
\* from the one config dict.  config.get('symbolic_rules', []) returns the dict's own
\* list when the key is present and a fresh list otherwise; SimpleReasoner keeps the
\* list it is given.
InitWith(Configs) ==
    /\ InitTracker
    /\ InitServices
    /\ config \in Configs
    /\ heap = [l \in {CfgList} \cup Instances |-> <<>>]
    /\ rules_ref = [m \in Instances |-> IF config.has_rules THEN CfgList ELSE m]
    /\ is_trained = [m \in Instances |-> FALSE]
    /\ training = [m \in Instances |-> TRUE]
    /\ weights = [m \in Instances |-> 0]
    /\ grads = [m \in Instances |-> 0]
    /\ pc = [m \in Instances |-> "idle"]
    /\ fitX = [m \in Instances |-> NoX]
    /\ epoch = [m \in Instances |-> 0]
    /\ todo = [m \in Instances |-> {}]
    /\ loss = [m \in Instances |-> "none"]
    /\ steps = [m \in Instances |-> 0]
    /\ ret = NoRet

\* Configurations of the instance-level specifications: the training
\* hyperparameters vary, the architecture is one late-fusion network.
Configurations ==
    [epochs : 0..MaxEpochs, batch_size : 1..MaxN, input_size : {1},
     has_rules : BOOLEAN, integration_method : {"late_fusion"},
     hidden_layers : {<<8, 4>>}]

Init == InitWith(Configurations)

Returned(m, op, exc, X) == [NoRet EXCEPT !.m = m, !.op = op, !.exc = exc, !.X = X]

(* -------------------------------- fit --------------------------------- *)
NBatches(X) == (Len(X.rows) + config.batch_size - 1) \div config.batch_size

\* Mutant of FitBegin: the trained flag is set when training starts.
FitBegin_FlagEarly(m, X) ==
    /\ pc[m] = "idle"
    /\ weights[m] = NaN \/ weights[m] + config.epochs * NBatches(X) <= MaxUpdates
    /\ pc' = [pc EXCEPT ![m] = "loop"]
    /\ fitX' = [fitX EXCEPT ![m] = X]
    /\ epoch' = [epoch EXCEPT ![m] = 0]
    /\ todo' = [todo EXCEPT ![m] = IF config.epochs > 0 THEN 1..Len(X.rows) ELSE {}]
    /\ training' = [training EXCEPT ![m] = TRUE]
    /\ loss' = [loss EXCEPT ![m] = "none"]
    /\ steps' = [steps EXCEPT ![m] = 0]
    /\ ret' = NoRet
    /\ is_trained' = [is_trained EXCEPT ![m] = TRUE]
    /\ UNCHANGED <<tracker, services, config, heap, rules_ref, weights, grads>>

\* Mutant of FitBegin: the parameters are re-initialised by every fit.
FitBegin_Reinit(m, X) ==
    /\ pc[m] = "idle"
    /\ weights[m] = NaN \/ weights[m] + config.epochs * NBatches(X) <= MaxUpdates
    /\ pc' = [pc EXCEPT ![m] = "loop"]
    /\ fitX' = [fitX EXCEPT ![m] = X]
    /\ epoch' = [epoch EXCEPT ![m] = 0]
    /\ todo' = [todo EXCEPT ![m] = IF config.epochs > 0 THEN 1..Len(X.rows) ELSE {}]
    /\ training' = [training EXCEPT ![m] = TRUE]
    /\ loss' = [loss EXCEPT ![m] = "none"]
    /\ steps' = [steps EXCEPT ![m] = 0]
    /\ ret' = NoRet
    /\ weights' = [weights EXCEPT ![m] = 0]
    /\ UNCHANGED <<tracker, services, config, heap, rules_ref, is_trained, grads>>

\* Mutant of FitBegin: a new fit clears the trained flag until it completes.
FitBegin_ClearsFlag(m, X) ==
    /\ pc[m] = "idle"
    /\ weights[m] = NaN \/ weights[m] + config.epochs * NBatches(X) <= MaxUpdates
    /\ pc' = [pc EXCEPT ![m] = "loop"]
    /\ fitX' = [fitX EXCEPT ![m] = X]
    /\ epoch' = [epoch EXCEPT ![m] = 0]
    /\ todo' = [todo EXCEPT ![m] = IF config.epochs > 0 THEN 1..Len(X.rows) ELSE {}]
    /\ training' = [training EXCEPT ![m] = TRUE]
    /\ loss' = [loss EXCEPT ![m] = "none"]
    /\ steps' = [steps EXCEPT ![m] = 0]
    /\ ret' = NoRet
    /\ is_trained' = [is_trained EXCEPT ![m] = FALSE]
    /\ UNCHANGED <<tracker, services, config, heap, rules_ref, weights, grads>>

\* fit up to the loop: tensors, optimizer, DataLoader, self.train().
FitBegin(m, X) ==
    /\ pc[m] = "idle"
    /\ weights[m] = NaN \/ weights[m] + config.epochs * NBatches(X) <= MaxUpdates
    /\ pc' = [pc EXCEPT ![m] = "loop"]
    /\ fitX' = [fitX EXCEPT ![m] = X]
    /\ epoch' = [epoch EXCEPT ![m] = 0]
    /\ todo' = [todo EXCEPT ![m] = IF config.epochs > 0 THEN 1..Len(X.rows) ELSE {}]
    /\ training' = [training EXCEPT ![m] = TRUE]
    /\ loss' = [loss EXCEPT ![m] = "none"]
    /\ steps' = [steps EXCEPT ![m] = 0]
    /\ ret' = NoRet
    /\ UNCHANGED <<tracker, services, config, heap, rules_ref, is_trained, weights, grads>>

\* One batch up to the loss: optimizer.zero_grad(), _forward_pass, criterion.
\* The shuffled DataLoader yields any batch_size rows not yet seen this epoch.
\* A batch whose width is not the encoder's makes the first Linear raise.
FitForward(m, batch) ==
    /\ pc[m] = "loop"
    /\ epoch[m] < config.epochs
    /\ batch \subseteq todo[m]
    /\ Cardinality(batch) = Min(config.batch_size, Cardinality(todo[m]))
    /\ grads' = [grads EXCEPT ![m] = 0]
    /\ IF fitX[m].width # config.input_size
       THEN /\ pc' = [pc EXCEPT ![m] = "idle"]
            /\ ret' = Returned(m, "fit", "RuntimeError", fitX[m])
            /\ loss' = [loss EXCEPT ![m] = "none"]
            /\ fitX' = [fitX EXCEPT ![m] = NoX]
            /\ todo' = [todo EXCEPT ![m] = {}]
            /\ epoch' = [epoch EXCEPT ![m] = 0]
       ELSE /\ pc' = [pc EXCEPT ![m] = "backward"]
            /\ loss' = [loss EXCEPT ![m] =
                  IF weights[m] = NaN \/ \E i \in batch : fitX[m].rows[i] = NaN
                  THEN "nonfinite" ELSE "finite"]
            /\ todo' = [todo EXCEPT ![m] = @ \ batch]
            /\ ret' = NoRet
            /\ UNCHANGED <<fitX, epoch>>
    /\ UNCHANGED <<tracker, services, steps, config, heap, rules_ref, is_trained, training, weights>>

\* Mutant of FitBackwardStep: the update also resets the rule list of the reasoner.
FitBackwardStep_ClearsRules(m) ==
    /\ pc[m] = "backward"
    /\ grads' = [grads EXCEPT ![m] = 1]
    /\ weights' = [weights EXCEPT ![m] =
          IF loss[m] = "nonfinite" \/ @ = NaN THEN NaN ELSE @ + 1]
    /\ steps' = [steps EXCEPT ![m] = @ + 1]
    /\ pc' = [pc EXCEPT ![m] = "loop"]
    /\ IF todo[m] = {}
       THEN /\ epoch' = [epoch EXCEPT ![m] = @ + 1]
            /\ todo' = [todo EXCEPT ![m] =
                  IF epoch[m] + 1 < config.epochs THEN 1..Len(fitX[m].rows) ELSE {}]
       ELSE UNCHANGED <<epoch, todo>>
    /\ ret' = NoRet
    /\ heap' = [heap EXCEPT ![rules_ref[m]] = <<>>]
    /\ UNCHANGED <<tracker, services, config, rules_ref, is_trained, training, fitX, loss>>

\* The rest of the batch: loss.backward(), optimizer.step(), total_loss; after the
\* last batch of an epoch the epoch counter advances and the DataLoader restarts.
FitBackwardStep(m) ==
    /\ pc[m] = "backward"
    /\ grads' = [grads EXCEPT ![m] = 1]
    /\ weights' = [weights EXCEPT ![m] =
          IF loss[m] = "nonfinite" \/ @ = NaN THEN NaN ELSE @ + 1]
    /\ steps' = [steps EXCEPT ![m] = @ + 1]
    /\ pc' = [pc EXCEPT ![m] = "loop"]
    /\ IF todo[m] = {}
       THEN /\ epoch' = [epoch EXCEPT ![m] = @ + 1]
            /\ todo' = [todo EXCEPT ![m] =
                  IF epoch[m] + 1 < config.epochs THEN 1..Len(fitX[m].rows) ELSE {}]
       ELSE UNCHANGED <<epoch, todo>>
    /\ ret' = NoRet
    /\ UNCHANGED <<tracker, services, config, heap, rules_ref, is_trained, training, fitX, loss>>

\* Mutant of FitEnd: fit returns after any batch.
FitEnd_Early(m) ==
    /\ pc[m] = "loop"
    /\ is_trained' = [is_trained EXCEPT ![m] = TRUE]
    /\ pc' = [pc EXCEPT ![m] = "idle"]
    /\ ret' = [Returned(m, "fit", "none", fitX[m]) EXCEPT !.updates = steps[m]]
    /\ fitX' = [fitX EXCEPT ![m] = NoX]
    /\ epoch' = [epoch EXCEPT ![m] = 0]
    /\ todo' = [todo EXCEPT ![m] = {}]
    /\ loss' = [loss EXCEPT ![m] = "none"]
    /\ steps' = [steps EXCEPT ![m] = 0]
    /\ UNCHANGED <<tracker, services, config, heap, rules_ref, training, weights, grads>>

\* After the epoch loop: self.is_trained = True; return self.
FitEnd(m) ==
    /\ pc[m] = "loop"
    /\ epoch[m] >= config.epochs
    /\ is_trained' = [is_trained EXCEPT ![m] = TRUE]
    /\ pc' = [pc EXCEPT ![m] = "idle"]
    /\ ret' = [Returned(m, "fit", "none", fitX[m]) EXCEPT !.updates = steps[m]]
    /\ fitX' = [fitX EXCEPT ![m] = NoX]
    /\ epoch' = [epoch EXCEPT ![m] = 0]
    /\ loss' = [loss EXCEPT ![m] = "none"]
    /\ steps' = [steps EXCEPT ![m] = 0]
    /\ UNCHANGED <<tracker, services, config, heap, rules_ref, training, weights, grads, todo>>

(* ------------------------------- reads -------------------------------- *)
Labels(w, rows, noise, draws) ==
    LET out == _forward_pass(w, rows, noise, draws)
    IN  [i \in 1..Len(rows) |-> ArgMax(out[i])]

\* Mutant of Predict: self.eval() is called before the is_trained guard.
Predict_EvalBeforeGuard(m, X) ==
    /\ training' = [training EXCEPT ![m] = FALSE]
    /\ IF ~is_trained[m]
       THEN ret' = Returned(m, "predict", "ValueError", X)
       ELSE IF X.width # config.input_size
            THEN ret' = Returned(m, "predict", "RuntimeError", X)
            ELSE \E d \in Draws(X.rows) :
                   ret' = [Returned(m, "predict", "none", X) EXCEPT
                             !.labels = Labels(weights[m], X.rows, NoNoise(X.rows), d)]
    /\ UNCHANGED <<tracker, services, steps, config, heap, rules_ref, is_trained, weights, grads,
                   pc, fitX, epoch, todo, loss>>

\* predict: the is_trained guard, self.eval(), forward pass, argmax per row.
Predict(m, X) ==
    /\ IF ~is_trained[m]
       THEN /\ ret' = Returned(m, "predict", "ValueError", X)
            /\ UNCHANGED training
       ELSE /\ training' = [training EXCEPT ![m] = FALSE]
            /\ IF X.width # config.input_size
               THEN ret' = Returned(m, "predict", "RuntimeError", X)
               ELSE \E d \in Draws(X.rows) :
                      ret' = [Returned(m, "predict", "none", X) EXCEPT
                                !.symbolic = Stacked(X.rows, d),
                                !.labels = Labels(weights[m], X.rows, NoNoise(X.rows), d)]
    /\ UNCHANGED <<tracker, services, steps, config, heap, rules_ref, is_trained, weights, grads,
                   pc, fitX, epoch, todo, loss>>

\* predict_proba: the is_trained guard, self.eval(), forward pass, softmax per row.
PredictProba(m, X) ==
    /\ IF ~is_trained[m]
       THEN /\ ret' = Returned(m, "predict_proba", "ValueError", X)
            /\ UNCHANGED training
       ELSE /\ training' = [training EXCEPT ![m] = FALSE]
            /\ IF X.width # config.input_size
               THEN ret' = Returned(m, "predict_proba", "RuntimeError", X)
               ELSE \E d \in Draws(X.rows) :
                      LET out == _forward_pass(weights[m], X.rows, NoNoise(X.rows), d)
                      IN  ret' = [Returned(m, "predict_proba", "none", X) EXCEPT
                                    !.symbolic = Stacked(X.rows, d),
                                    !.probs = [i \in 1..Len(X.rows) |-> Softmax(out[i])]]
    /\ UNCHANGED <<tracker, services, steps, config, heap, rules_ref, is_trained, weights, grads,
                   pc, fitX, epoch, todo, loss>>

\* The symbolic_reasoning dict _get_symbolic_reasoning builds from a reasoner
\* result: reasoning_result.get(key, default) for each entry.
_get_symbolic_reasoning(r) ==
    [rules_applied |-> IF "rules_applied" \in r.keys THEN r.rules_applied ELSE <<>>,
     reasoning_steps |-> IF "steps" \in r.keys THEN r.steps ELSE <<>>,
     confidence |-> IF "confidence" \in r.keys THEN r.confidence ELSE 0]

_combine_explanations(symbolic_reasoning) ==
    [symbolic_rules |-> symbolic_reasoning.rules_applied,
     confidence |-> symbolic_reasoning.confidence]

\* Mutant of Explain: the reasoner is called for every row and the explanation
\* is that of the last one.
Explain_EveryRow(m, X) ==
    /\ IF ~is_trained[m]
       THEN /\ ret' = Returned(m, "explain", "ValueError", X)
            /\ UNCHANGED <<training, grads>>
       ELSE /\ training' = [training EXCEPT ![m] = FALSE]
            /\ IF X.width # config.input_size
               THEN /\ ret' = Returned(m, "explain", "RuntimeError", X)
                    /\ UNCHANGED grads
               ELSE /\ grads[m] < MaxGrad
                    /\ grads' = [grads EXCEPT ![m] = @ + 1]
                    /\ LET calls == [i \in 1..Len(X.rows) |->
                                       reason(<<X.rows[i]>>, "explain_classification", 0)]
                           sr == _get_symbolic_reasoning(calls[Len(X.rows)])
                       IN  ret' = [Returned(m, "explain", "none", X) EXCEPT
                                     !.calls = calls,
                                     !.rules = sr.rules_applied,
                                     !.score = <<sr.confidence>>,
                                     !.integrated = _combine_explanations(sr)]
    /\ UNCHANGED <<tracker, services, steps, config, heap, rules_ref, is_trained, weights,
                   pc, fitX, epoch, todo, loss>>

\* explain: the is_trained guard; _get_neural_importance (self.eval(), encoder
\* forward, loss.backward() with gradients enabled); _get_symbolic_reasoning (one
\* reason("explain_classification") call on row 0); _combine_explanations.
\* ret.calls are the reasoner calls issued, as their results.
Explain(m, X) ==
    /\ IF ~is_trained[m]
       THEN /\ ret' = Returned(m, "explain", "ValueError", X)
            /\ UNCHANGED <<training, grads>>
       ELSE /\ training' = [training EXCEPT ![m] = FALSE]
            /\ IF X.width # config.input_size
               THEN /\ ret' = Returned(m, "explain", "RuntimeError", X)
                    /\ UNCHANGED grads
               ELSE /\ grads[m] < MaxGrad
                    /\ grads' = [grads EXCEPT ![m] = @ + 1]
                    /\ LET r == reason(<<X.rows[1]>>, "explain_classification", 0)
                           sr == _get_symbolic_reasoning(r)
                       IN  ret' = [Returned(m, "explain", "none", X) EXCEPT
                                     !.calls = <<r>>,
                                     !.rules = sr.rules_applied,
                                     !.score = <<sr.confidence>>,
                                     !.integrated = _combine_explanations(sr)]
    /\ UNCHANGED <<tracker, services, steps, config, heap, rules_ref, is_trained, weights,
                   pc, fitX, epoch, todo, loss>>

\* Sign of the noise np.random.normal(0, 0.01) adds to one row, as predict sees it
\* after torch.FloatTensor(X + noise): 0 when the sum rounds back to the row.
NoiseSign == {0 - 1, 0, 1}

\* _calculate_robustness_score: predict(X) and predict(X + noise), one entry per
\* row telling whether the two labels agree; every vector the reasoner's draws
\* can produce for the noise drawn.
_calculate_robustness_score(w, rows, noise) ==
    {agree \in [1..Len(rows) -> BOOLEAN] :
        \A i \in 1..Len(rows) : \E s1 \in SymVals, s2 \in SymVals :
            agree[i] = (Labels(w, <<rows[i]>>, <<0>>, <<s1>>)
                          = Labels(w, <<rows[i]>>, <<noise[i]>>, <<s2>>))}

\* evaluate: predict, predict_proba, the metrics, the robustness score
\* (score = <<rows whose label survived the noise, rows>>).
Evaluate(m, X) ==
    /\ IF ~is_trained[m]
       THEN /\ ret' = Returned(m, "evaluate", "ValueError", X)
            /\ UNCHANGED training
       ELSE /\ training' = [training EXCEPT ![m] = FALSE]
            /\ IF X.width # config.input_size
               THEN ret' = Returned(m, "evaluate", "RuntimeError", X)
               ELSE \E noise \in [1..Len(X.rows) -> NoiseSign] :
                    \E agree \in _calculate_robustness_score(weights[m], X.rows, noise) :
                      ret' = [Returned(m, "evaluate", "none", X) EXCEPT
                                !.noise = noise,
                                !.score = <<Cardinality({i \in 1..Len(X.rows) : agree[i]}),
                                            Len(X.rows)>>]
    /\ UNCHANGED <<tracker, services, steps, config, heap, rules_ref, is_trained, weights, grads,
                   pc, fitX, epoch, todo, loss>>

\* Mutant of add_knowledge: the rule list is replaced by the delta.
add_knowledge_Replace(m, delta) ==
    /\ Len(heap[rules_ref[m]]) + Len(delta) <= MaxRules
    /\ heap' = [heap EXCEPT ![rules_ref[m]] = delta]
    /\ ret' = Returned(m, "add_knowledge", "none", NoX)
    /\ UNCHANGED <<tracker, services, steps, config, rules_ref, is_trained, training, weights, grads,
                   pc, fitX, epoch, todo, loss>>

\* SimpleReasoner.add_knowledge: self.rules.extend(knowledge.get('rules', [])).
add_knowledge(m, delta) ==
    /\ Len(heap[rules_ref[m]]) + Len(delta) <= MaxRules
    /\ heap' = [heap EXCEPT ![rules_ref[m]] = @ \o delta]
    /\ ret' = Returned(m, "add_knowledge", "none", NoX)
    /\ UNCHANGED <<tracker, services, steps, config, rules_ref, is_trained, training, weights, grads,
                   pc, fitX, epoch, todo, loss>>

\* A direct call model.symbolic_reasoner.reason([{"features": x}], query).
Queries == {"classify", "explain_classification", "other"}

ReasonCall(m, x, query) ==
    /\ \E s \in SymVals :
          ret' = [Returned(m, "reason", "none", NoX) EXCEPT !.result = reason(<<x>>, query, s)]
    /\ UNCHANGED <<tracker, services, steps, config, heap, rules_ref, is_trained, training, weights, grads,
                   pc, fitX, epoch, todo, loss>>

\* SimpleReasoner.explain_reasoning: the string is built from
\* len(reasoning_result['rules_applied']) and len(reasoning_result['steps']);
\* indexing a dict by a key it does not have raises KeyError.
explain_reasoning(r) ==
    IF {"rules_applied", "steps"} \subseteq r.keys
    THEN [exc |-> "none", text |-> <<Len(r.rules_applied), Len(r.steps)>>]
    ELSE [exc |-> "KeyError", text |-> <<>>]

\* A direct call model.symbolic_reasoner.explain_reasoning(reason([{"features": x}], query)).
ExplainReasoning(m, x, query) ==
    /\ \E s \in SymVals :
          LET r == reason(<<x>>, query, s)
          IN  ret' = [Returned(m, "explain_reasoning", explain_reasoning(r).exc, NoX) EXCEPT
                        !.result = r, !.text = explain_reasoning(r).text]
    /\ UNCHANGED <<tracker, services, steps, config, heap, rules_ref, is_trained, training, weights, grads,
                   pc, fitX, epoch, todo, loss>>

(* ---------------------------- construct ------------------------------ *)
NumHeads == 8        \* num_heads of AttentionFusion's MultiheadAttention

\* A Python call: the keyword arguments must be the parameters of the callee.
Call(params, kwargs) == IF kwargs = params THEN "none" ELSE "TypeError"

\* _build_neural_network: the first Linear reads hidden_layers[0].
_build_neural_network(cfg) ==
    IF cfg.hidden_layers = <<>> THEN "IndexError" ELSE "none"

\* _build_symbolic_reasoner: SimpleReasoner(rules=..., engine=...), whose
\* __init__(self, config) has the one parameter config.
_build_symbolic_reasoner(cfg) == Call({"config"}, {"rules", "engine"})

\* AttentionFusion.__init__: MultiheadAttention requires num_heads to divide embed_dim.
AttentionFusion(neural_size, symbolic_size) ==
    IF (neural_size + symbolic_size) % NumHeads = 0 THEN "none" ELSE "AssertionError"

\* _build_integration_layer: the three branches on integration_method.
_build_integration_layer(cfg) ==
    IF cfg.integration_method = "late_fusion" THEN "none"
    ELSE IF cfg.integration_method = "attention_fusion"
    THEN AttentionFusion(cfg.hidden_layers[Len(cfg.hidden_layers)], OutputSize)
    ELSE "ValueError"

\* NeuroSymbolicClassifier.__init__: the three builders in order; the first
\* exception ends construction.
construct(cfg) ==
    IF _build_neural_network(cfg) # "none" THEN _build_neural_network(cfg)
    ELSE IF _build_symbolic_reasoner(cfg) # "none" THEN _build_symbolic_reasoner(cfg)
    ELSE _build_integration_layer(cfg)

\* The caller's NeuroSymbolicClassifier(config).
Construct ==
    /\ ret = NoRet
    /\ ret' = Returned(0, "construct", construct(config), NoX)
    /\ UNCHANGED <<tracker, services, steps, config, heap, rules_ref, is_trained, training, weights, grads,
                   pc, fitX, epoch, todo, loss>>

AnyConfigurations ==
    [epochs : 0..MaxEpochs, batch_size : 1..MaxN, input_size : {1},
     has_rules : BOOLEAN,
     integration_method : {"late_fusion", "attention_fusion", "early_fusion"},
     hidden_layers : {<<>>, <<8>>, <<8, 4>>, <<16, 32>>, <<256, 128, 64>>}]

SpecConstruct == InitWith(AnyConfigurations) /\ [][Construct]_vars

(* ------------------------- ExperimentTracker -------------------------- *)
\* The id the tracking store gives the next run it creates.
NextRunId(ml) ==
    CHOOSE r \in RunIds : ml.status[r] = "NONE" /\ \A q \in 1..(r - 1) : ml.status[q] # "NONE"

HasRunId(ml) == \E r \in RunIds : ml.status[r] = "NONE"

\* mlflow.start_run: raises when a run is already active or when the tracking
\* server fails (ok = FALSE); otherwise the new run is RUNNING and active.
mlflow_start_run(ml, ok) ==
    IF ml.active # 0 \/ ~ok
    THEN [exc |-> "Exception", mlflow |-> ml, run |-> 0]
    ELSE [exc |-> "none", run |-> NextRunId(ml),
          mlflow |-> [ml EXCEPT !.active = NextRunId(ml), !.status[NextRunId(ml)] = "RUNNING"]]

\* mlflow.end_run(status): nothing without an active run; otherwise the run is
\* popped from the stack and then terminated in the store, which may raise.
mlflow_end_run(ml, status, ok) ==
    IF ml.active = 0 THEN [exc |-> "none", mlflow |-> ml]
    ELSE IF ok
    THEN [exc |-> "none",
          mlflow |-> [ml EXCEPT !.active = 0, !.status[ml.active] = status,
                                !.ended[ml.active] = @ + 1]]
    ELSE [exc |-> "Exception", mlflow |-> [ml EXCEPT !.active = 0]]

\* mlflow.log_param / log_metric / log_artifact / log_model: logs to the active
\* run, starting one when there is none; may raise.
mlflow_log(ml, kind, ok) ==
    IF ~ok THEN [exc |-> "Exception", mlflow |-> ml]
    ELSE LET r == IF ml.active # 0 THEN ml.active ELSE NextRunId(ml)
         IN  [exc |-> "none",
              mlflow |-> [ml EXCEPT !.active = r, !.status[r] = "RUNNING",
                                    !.logged[r] = @ \cup {kind}]]

\* ExperimentTracker.start_run: self.current_run = mlflow.start_run(...).
start_run(cr, ml, ok) ==
    LET r == mlflow_start_run(ml, ok)
    IN  [exc |-> r.exc, mlflow |-> r.mlflow, run_id |-> r.run,
         current_run |-> IF r.exc = "none" THEN r.run ELSE cr]

\* Mutant of end_run: the run is ended in mlflow but kept as the current run.
end_run_KeepsCurrent(cr, ml, status, ok) ==
    IF cr = 0 THEN [exc |-> "none", mlflow |-> ml, current_run |-> cr]
    ELSE LET r == mlflow_end_run(ml, status, ok)
         IN  [exc |-> r.exc, mlflow |-> r.mlflow, current_run |-> cr]

\* ExperimentTracker.end_run: if self.current_run: mlflow.end_run(status);
\* self.current_run = None.
end_run(cr, ml, status, ok) ==
    IF cr = 0 THEN [exc |-> "none", mlflow |-> ml, current_run |-> cr]
    ELSE LET r == mlflow_end_run(ml, status, ok)
         IN  [exc |-> r.exc, mlflow |-> r.mlflow,
              current_run |-> IF r.exc = "none" THEN 0 ELSE cr]

\* The mlflow call a log method of the tracker makes for an entry of its argument
\* (log_dataset_info with scalar values).
MlflowCall(method) ==
    CASE method = "log_metrics" -> "log_metric"
      [] method = "log_artifact" -> "log_artifact"
      [] method = "log_model" -> "log_model"
      [] OTHER -> "log_param"

\* Mutant of log: the call goes to mlflow without the current_run guard.
log_NoGuard(cr, ml, method, ok) == mlflow_log(ml, MlflowCall(method), ok)

\* ExperimentTracker.log_parameters, log_metrics, log_artifact, log_model,
\* log_dataset_info, log_system_info: the current_run guard, then the mlflow calls.
log(cr, ml, method, ok) ==
    IF cr = 0 THEN [exc |-> "ValueError", mlflow |-> ml]
    ELSE mlflow_log(ml, MlflowCall(method), ok)

LogMethods == {"log_parameters", "log_metrics", "log_artifact", "log_model",
               "log_dataset_info", "log_system_info"}

\* Calls on a tracker by its owner.
StartRun ==
    /\ HasRunId(mlflow)
    /\ \E ok \in BOOLEAN :
          LET r == start_run(current_run, mlflow, ok)
          IN  /\ current_run' = r.current_run
              /\ mlflow' = r.mlflow
              /\ ret' = [Returned(0, "start_run", r.exc, NoX) EXCEPT !.run_id = r.run_id]
    /\ UNCHANGED <<model, services, exp>>

EndRun(status) ==
    /\ \E ok \in BOOLEAN :
          LET r == end_run(current_run, mlflow, status, ok)
          IN  /\ current_run' = r.current_run
              /\ mlflow' = r.mlflow
              /\ ret' = [Returned(0, "end_run", r.exc, NoX) EXCEPT !.detail = status]
    /\ UNCHANGED <<model, services, exp>>

Log(method) ==
    /\ current_run # 0 => (mlflow.active # 0 \/ HasRunId(mlflow))
    /\ \E ok \in BOOLEAN :
          LET r == log(current_run, mlflow, method, ok)
          IN  /\ mlflow' = r.mlflow
              /\ ret' = Returned(0, method, r.exc, NoX)
    /\ UNCHANGED <<model, services, exp, current_run>>

(* ------------------------- ExperimentManager -------------------------- *)
\* The statements of the try block of run_experiment, in order; exp.pc is the
\* index of the next one, ExceptPc the except block, 0 no call in progress.
TrySteps == <<"log_parameters", "log_system_info", "log_dataset_info",
              "_execute_experiment", "log_metrics", "log_model", "log_artifact",
              "end_run">>
ExceptPc == Len(TrySteps) + 1

\* run_experiment up to the try block: self.tracker.start_run(...), outside the
\* try.  artifacts is len(experiment_config.get('artifacts', [])).
RunExperimentBegin(artifacts) ==
    /\ exp.pc = 0
    /\ HasRunId(mlflow)
    /\ \E ok \in BOOLEAN :
          LET r == start_run(current_run, mlflow, ok)
          IN  /\ current_run' = r.current_run
              /\ mlflow' = r.mlflow
              /\ IF r.exc = "none"
                 THEN /\ exp' = [pc |-> 1, run_id |-> r.run_id, artifacts |-> artifacts]
                      /\ ret' = NoRet
                 ELSE /\ exp' = NoExp
                      /\ ret' = Returned(0, "run_experiment", r.exc, NoX)
    /\ UNCHANGED <<model, services>>

\* One statement of the try block before end_run: a tracker log call (the
\* log_artifact loop runs once per artifact), or _execute_experiment, which
\* builds its result from constants.  An exception enters the except block.
RunExperimentStep ==
    /\ exp.pc \in 1..(Len(TrySteps) - 1)
    /\ mlflow.active # 0 \/ HasRunId(mlflow)
    /\ LET method == TrySteps[exp.pc]
       IN  IF method = "_execute_experiment" \/ (method = "log_artifact" /\ exp.artifacts = 0)
           THEN /\ exp' = [exp EXCEPT !.pc = @ + 1]
                /\ UNCHANGED mlflow
           ELSE \E ok \in BOOLEAN :
                  LET r == log(current_run, mlflow, method, ok)
                  IN  /\ mlflow' = r.mlflow
                      /\ exp' = IF r.exc # "none" THEN [exp EXCEPT !.pc = ExceptPc]
                                ELSE IF method = "log_artifact"
                                THEN [exp EXCEPT !.artifacts = @ - 1]
                                ELSE [exp EXCEPT !.pc = @ + 1]
    /\ ret' = NoRet
    /\ UNCHANGED <<model, services, current_run>>

\* Mutant of RunExperimentEnd: the run is not ended on the success path.
RunExperimentEnd_NoEndRun ==
    /\ exp.pc = Len(TrySteps)
    /\ ret' = [Returned(0, "run_experiment", "none", NoX) EXCEPT
                  !.detail = "success", !.run_id = exp.run_id]
    /\ exp' = NoExp
    /\ UNCHANGED <<model, services, current_run, mlflow>>

\* The end of the try block: self.tracker.end_run("FINISHED") and the return of
\* the 'success' result.
RunExperimentEnd ==
    /\ exp.pc = Len(TrySteps)
    /\ \E ok \in BOOLEAN :
          LET r == end_run(current_run, mlflow, "FINISHED", ok)
          IN  /\ current_run' = r.current_run
              /\ mlflow' = r.mlflow
              /\ IF r.exc = "none"
                 THEN /\ exp' = NoExp
                      /\ ret' = [Returned(0, "run_experiment", "none", NoX) EXCEPT
                                    !.detail = "success", !.run_id = exp.run_id]
                 ELSE /\ exp' = [exp EXCEPT !.pc = ExceptPc]
                      /\ ret' = NoRet
    /\ UNCHANGED <<model, services>>

\* The except block: self.tracker.end_run("FAILED") and the return of the
\* 'failed' result; an exception of end_run leaves run_experiment.
RunExperimentExcept ==
    /\ exp.pc = ExceptPc
    /\ \E ok \in BOOLEAN :
          LET r == end_run(current_run, mlflow, "FAILED", ok)
          IN  /\ current_run' = r.current_run
              /\ mlflow' = r.mlflow
              /\ ret' = [Returned(0, "run_experiment", r.exc, NoX) EXCEPT
                            !.detail = IF r.exc = "none" THEN "failed" ELSE "",
                            !.run_id = exp.run_id]
    /\ exp' = NoExp
    /\ UNCHANGED <<model, services>>

(* ------------------------- education service -------------------------- *)
Usernames == {"ann", "bob"}
Emails == {"ann@example.org", "bob@example.org"}
Passwords == {"pw1", "pw2"}
UserIds == 1..2

ALGORITHM == "HS2"
\* The signing algorithms the jwt library implements with a shared secret.
SupportedAlgorithms == {"HS256", "HS384", "HS512"}

\* A response of a service: the status code, the detail of an error, and the
\* parts of a body the claims speak of.
Response(status, detail) ==
    [status |-> status, detail |-> detail, access_token |-> NoToken, user |-> <<>>,
     health |-> "", components |-> <<>>]

\* global_exception_handler: an exception that is not an HTTPException.
InternalServerError == Response(500, "Internal server error")

\* jwt.encode: a token of the payload under the algorithm.
jwt_encode(payload, algorithm) ==
    IF algorithm \in SupportedAlgorithms
    THEN [exc |-> "none", token |-> [alg |-> algorithm, sub |-> payload.sub]]
    ELSE [exc |-> "NotImplementedError", token |-> NoToken]

\* jwt.decode: the payload of a token whose algorithm is one of the allowed and
\* implemented ones.
jwt_decode(token, algorithms) ==
    IF token.alg \in algorithms /\ token.alg \in SupportedAlgorithms
    THEN [exc |-> "none", payload |-> [sub |-> token.sub]]
    ELSE [exc |-> "PyJWTError", payload |-> [sub |-> ""]]

\* create_access_token: the else branch evaluates timedelta(minutes=15), a name
\* the module never imports.
create_access_token(data, expires_delta) ==
    IF expires_delta = None
    THEN [exc |-> "NameError", token |-> NoToken]
    ELSE jwt_encode(data, ALGORITHM)

\* verify_token: the username of the bearer token, or 401.
verify_token(credentials) ==
    LET d == jwt_decode(credentials, {ALGORITHM})
    IN  IF d.exc # "none" \/ d.payload.sub = ""
        THEN [response |-> Response(401, "Could not validate credentials"), username |-> ""]
        ELSE [response |-> Response(200, ""), username |-> d.payload.sub]

UserNamed(users, username) ==
    {i \in 1..Len(users) : users[i].username = username}

\* next((u for u in mock_users if u.username == username), None): the first match.
FirstNamed(users, username) ==
    users[CHOOSE i \in UserNamed(users, username) :
             \A j \in UserNamed(users, username) : i <= j]

\* Mutant of UserExists: only the username is compared.
UserExists_UsernameOnly(users, user) ==
    \E i \in 1..Len(users) : users[i].username = user.username

\* any(u.username == user.username or u.email == user.email for u in mock_users)
UserExists(users, user) ==
    \E i \in 1..Len(users) :
        users[i].username = user.username \/ users[i].email = user.email

\* User(username=..., email=..., full_name=..., role="student"): id defaults to
\* None, here the empty tuple, an int id n being <<n>>.
User(user) ==
    [id |-> <<>>, username |-> user.username, email |-> user.email, role |-> "student"]

\* register: the response and the store after the request.
register(users, user) ==
    IF UserExists(users, user)
    THEN [response |-> Response(400, "User already exists"), mock_users |-> users]
    ELSE LET new_user == User(user)
             t == create_access_token([sub |-> new_user.username], None)
         IN  [response |-> IF t.exc # "none" THEN InternalServerError
                           ELSE [Response(200, "") EXCEPT
                                   !.access_token = t.token, !.user = <<new_user>>],
              mock_users |-> Append(users, new_user)]

\* login: the password check is commented out.
login(users, user_credentials) ==
    IF UserNamed(users, user_credentials.username) = {}
    THEN Response(401, "Invalid credentials")
    ELSE LET user == FirstNamed(users, user_credentials.username)
             t == create_access_token([sub |-> user.username], None)
         IN  IF t.exc # "none" THEN InternalServerError
             ELSE [Response(200, "") EXCEPT !.access_token = t.token, !.user = <<user>>]

\* get_user_progress behind Depends(get_current_user) behind Depends(verify_token).
\* user_id is an int of the path.
get_user_progress(users, user_id, credentials) ==
    LET v == verify_token(credentials)
    IN  IF v.response.status # 200 THEN v.response
        ELSE IF UserNamed(users, v.username) = {} THEN Response(404, "User not found")
        ELSE LET current_user == FirstNamed(users, v.username)
             IN  IF current_user.id # <<user_id>> /\ current_user.role # "admin"
                 THEN Response(403, "Access denied")
                 ELSE Response(200, "")

\* health_check of the education service.
education_health_check == [Response(200, "") EXCEPT !.health = "healthy"]

Responded(op, request, response) ==
    [NoRet EXCEPT !.op = op, !.request = request, !.status = response.status,
                  !.detail = response.detail, !.access_token = response.access_token,
                  !.user = response.user, !.health = response.health,
                  !.components = response.components]

Register(username, email, password) ==
    LET user == [NoRequest EXCEPT !.username = username, !.email = email,
                                  !.password = password]
        r == register(mock_users, user)
    IN  /\ mock_users' = r.mock_users
        /\ ret' = Responded("register", user, r.response)
        /\ UNCHANGED <<model, tracker, ml_components, database_connection>>

Login(username, password) ==
    LET user_credentials == [NoRequest EXCEPT !.username = username,
                                              !.password = password]
    IN  /\ ret' = Responded("login", user_credentials, login(mock_users, user_credentials))
        /\ UNCHANGED <<model, tracker, services>>

\* The bearer tokens a client can present: for any username, under the service's
\* algorithm or one the library implements.
Credentials == [alg : {ALGORITHM, "HS256"}, sub : Usernames]

GetUserProgress(user_id, credentials) ==
    LET request == [NoRequest EXCEPT !.user_id = user_id, !.credentials = credentials]
    IN  /\ ret' = Responded("get_user_progress", request,
                            get_user_progress(mock_users, user_id, credentials))
        /\ UNCHANGED <<model, tracker, services>>

EducationHealthCheck ==
    /\ ret' = Responded("education_health_check", NoRequest,
                        education_health_check)
    /\ UNCHANGED <<model, tracker, services>>

(* ----------------------------- API service ----------------------------- *)
ModelNames == {"classifier", "reasoner"}

ModelNotFound(model_name) == "Model '" \o model_name \o "' not found"

\* predict: the 404 is raised inside the try block, and except Exception turns
\* every exception, the HTTPException included, into a 500 with str(e) as detail.
predict(components, request) ==
    IF request.model_name \notin components
    THEN Response(500, "404: " \o ModelNotFound(request.model_name))
    ELSE Response(200, "")

\* explain_model: the 404 is raised outside any try block.
explain_model(components, model_name) ==
    IF model_name \notin components
    THEN Response(404, ModelNotFound(model_name))
    ELSE Response(200, "")

\* Mutant of health_check: the status follows the components.
health_check_Degraded(db, components) ==
    LET c == <<IF db # None THEN "healthy" ELSE "unhealthy",
               IF components # {} THEN "healthy" ELSE "unhealthy">>
    IN  [Response(200, "") EXCEPT
           !.health = IF "unhealthy" \in {c[1], c[2]} THEN "unhealthy" ELSE "healthy",
           !.components = c]

\* health_check of the API service: status "healthy" and the two components.
health_check(db, components) ==
    [Response(200, "") EXCEPT
       !.health = "healthy",
       !.components = <<IF db # None THEN "healthy" ELSE "unhealthy",
                        IF components # {} THEN "healthy" ELSE "unhealthy">>]

ApiPredict(model_name, explanation_required) ==
    LET request == [NoRequest EXCEPT !.model_name = model_name,
                                     !.explanation_required = explanation_required]
    IN  /\ ret' = Responded("predict", request, predict(ml_components, request))
        /\ UNCHANGED <<model, tracker, services>>

ApiExplainModel(model_name) ==
    LET request == [NoRequest EXCEPT !.model_name = model_name]
    IN  /\ ret' = Responded("explain_model", request,
                            explain_model(ml_components, model_name))
        /\ UNCHANGED <<model, tracker, services>>

ApiHealthCheck ==
    /\ ret' = Responded("health_check", NoRequest,
                        health_check(database_connection, ml_components))
    /\ UNCHANGED <<model, tracker, services>>

(* ------------------------- specifications ----------------------------- *)
Read(m, B) == \E X \in B : Predict(m, X) \/ PredictProba(m, X)
                             \/ Explain(m, X) \/ Evaluate(m, X)

Fit(m, D) ==
    \/ \E X \in D : FitBegin(m, X)
    \/ \E batch \in SUBSET (1..MaxN) : FitForward(m, batch)
    \/ FitBackwardStep(m)
    \/ FitEnd(m)

\* The steps of a fit call that has begun.
FitRun(m) ==
    \/ \E batch \in SUBSET (1..MaxN) : FitForward(m, batch)
    \/ FitBackwardStep(m)
    \/ FitEnd(m)

\* One instance on which only fit is called; the thread of a fit call keeps
\* running until the call returns or raises.
NextFit == Fit(1, FitData)

SpecFit == Init /\ [][NextFit]_vars /\ WF_vars(FitRun(1))

\* One instance whose caller serialises its calls (spec section 5): a read is
\* issued only when no fit is running.
Next ==
    \/ Fit(1, FitData)
    \/ pc[1] = "idle" /\ Read(1, Batches)

Spec == Init /\ [][Next]_vars

\* One instance whose caller does not serialise: reads run between the steps of a
\* fit (a second thread).
NextConcurrent ==
    \/ Fit(1, SmallFitData)
    \/ Read(1, SmallBatches)

SpecConcurrent == Init /\ [][NextConcurrent]_vars

\* Two instances built from the same config dict.
NextShared ==
    \E m \in Instances :
        \/ Fit(m, SmallFitData)
        \/ \E delta \in RuleLists : add_knowledge(m, delta)

\* The Configurations of SpecShared: one epoch of one-row batches.
SharedConfigurations == {c \in Configurations : c.epochs = 1 /\ c.batch_size = 1}

SpecShared == InitWith(SharedConfigurations) /\ [][NextShared]_vars

\* One instance and its reasoner: fit (a fit that raises included) interleaved with
\* calls on model.symbolic_reasoner.
ReasonerFitData == SmallFitData \cup {Array(<<0>>, 2)}

NextReasoner ==
    \/ Fit(1, ReasonerFitData)
    \/ \E delta \in RuleLists : add_knowledge(1, delta)
    \/ \E x \in {0, 1, NaN}, query \in Queries : ReasonCall(1, x, query)
    \/ pc[1] = "idle" /\ Read(1, SmallBatches)

SpecReasoner == Init /\ [][NextReasoner]_vars

\* The reasoner of one instance called directly, with no fit running.
NextReasonerCalls ==
    \/ \E delta \in RuleLists : add_knowledge(1, delta)
    \/ \E x \in {0, 1, NaN}, query \in Queries : ReasonCall(1, x, query)
    \/ \E x \in {0, 1, NaN}, query \in Queries : ExplainReasoning(1, x, query)

SpecReasonerCalls == Init /\ [][NextReasonerCalls]_vars

\* The Configuration of the specifications that leave the classifier alone.
ServiceConfigurations == {c \in SharedConfigurations : ~c.has_rules}

\* A tracker and the manager that owns it: direct calls on the tracker while no
\* run_experiment call is in progress, and the steps of run_experiment.
NextTracker ==
    \/ exp.pc = 0 /\ StartRun
    \/ exp.pc = 0 /\ \E status \in {"FINISHED", "FAILED", "KILLED"} : EndRun(status)
    \/ exp.pc = 0 /\ \E method \in LogMethods : Log(method)
    \/ \E artifacts \in 0..1 : RunExperimentBegin(artifacts)
    \/ RunExperimentStep
    \/ RunExperimentEnd
    \/ RunExperimentExcept

SpecTracker == InitWith(ServiceConfigurations) /\ [][NextTracker]_vars

\* The two services, each serving its requests one at a time (the handlers are
\* coroutines without an await).
NextServices ==
    \/ \E username \in Usernames, email \in Emails, password \in Passwords :
          Register(username, email, password)
    \/ \E username \in Usernames, password \in Passwords : Login(username, password)
    \/ \E user_id \in UserIds, credentials \in Credentials :
          GetUserProgress(user_id, credentials)
    \/ EducationHealthCheck
    \/ \E model_name \in ModelNames, explanation_required \in BOOLEAN :
          ApiPredict(model_name, explanation_required)
    \/ \E model_name \in ModelNames : ApiExplainModel(model_name)
    \/ ApiHealthCheck

SpecServices == InitWith(ServiceConfigurations) /\ [][NextServices]_vars

(* ------------------------------ claims ------------------------------- *)
AllBatches == Batches \cup SmallBatches
Started(m) == pc[m] = "idle" /\ pc'[m] # "idle"                 \* a fit call begins
Completed(m) == pc[m] # "idle" /\ pc'[m] = "idle" /\ ret'.exc = "none"  \* and returns

\* C1: predict, predict_proba, explain or evaluate on an instance on which no fit
\* has completed raises the not-trained ValueError, returns no result, and leaves
\* the trained flag, the weights and the train/eval mode as they were.
C1_UntrainedReadRaises ==
    [][\A m \in Instances :
         (~is_trained[m] /\ Read(m, AllBatches))
            => /\ ret'.exc = "ValueError"
               /\ ret'.labels = <<>> /\ ret'.probs = <<>>
               /\ ret'.rules = <<>> /\ ret'.score = <<>>
               /\ is_trained' = is_trained
               /\ weights' = weights
               /\ training' = training]_vars

\* C1 witness: a read was refused while the first fit of the instance was running.
C1_Witness ==
    /\ ret.op \in {"predict", "predict_proba", "explain", "evaluate"}
    /\ ret.exc = "ValueError"
    /\ ~is_trained[ret.m]
    /\ pc[ret.m] = "backward"

\* C2: construct succeeds if and only if the fusion method is late fusion or
\* attention fusion and, for attention fusion, the head count divides
\* latent_size + symbolic_size; otherwise it fails and no model is produced.
C2_ConstructIff ==
    (ret.op = "construct" /\ config.hidden_layers # <<>>)
       => (ret.exc = "none"
             <=> \/ config.integration_method = "late_fusion"
                 \/ /\ config.integration_method = "attention_fusion"
                    /\ (config.hidden_layers[Len(config.hidden_layers)] + OutputSize)
                          % NumHeads = 0)

\* C3: the trained flag is false from construction, a fit call puts the instance
\* in Training without touching the flag, and the flag turns true exactly in the
\* step in which fit leaves its epoch loop after the last epoch and returns.
C3_Lifecycle ==
    /\ \A m \in Instances : ~is_trained[m] /\ pc[m] = "idle"
    /\ [][\A m \in Instances :
            /\ Started(m) => (pc'[m] = "loop" /\ is_trained'[m] = is_trained[m])
            /\ (~is_trained[m] /\ is_trained'[m])
                  => (pc[m] = "loop" /\ epoch[m] = config.epochs /\ todo[m] = {}
                        /\ Completed(m) /\ ret'.op = "fit")
            /\ Completed(m) => is_trained'[m]]_vars

\* C3 witness: a first fit that ran batches has returned and the flag is set.
C3_Witness ==
    /\ ret.op = "fit" /\ ret.exc = "none" /\ ret.m = 1
    /\ is_trained[1] /\ weights[1] = config.epochs * NBatches(ret.X)
    /\ config.epochs = MaxEpochs

\* C4: a non-finite batch loss aborts fit at that step: no optimizer update is
\* applied after it, the trained flag is not set by that fit, and the call ends
\* with a training failure.
C4_NonFiniteAborts ==
    [][\A m \in Instances :
         (pc[m] = "backward" /\ loss[m] = "nonfinite")
            => /\ weights'[m] = weights[m]
               /\ is_trained'[m] = is_trained[m]
               /\ pc'[m] # pc[m] => (pc'[m] = "idle" /\ ret'.exc = "TrainingFailure")]_vars

\* C5: fit on features whose width is not the configured input dimension fails
\* with an error before any weight update and leaves the weights and the trained
\* flag as they were.
C5_WidthMismatchFails ==
    [][\A m \in Instances :
         (pc[m] # "idle" /\ fitX[m].width # config.input_size)
            => /\ weights'[m] = weights[m]
               /\ is_trained'[m] = is_trained[m]
               /\ pc'[m] = "idle" => ret'.exc # "none"]_vars

\* C6: on a trained instance and the same batch X, the labels of predict(X) are
\* the row-wise argmax of predict_proba(X).
C6_PredictIsArgmaxOfProba ==
    [][(/\ ret.op = "predict" /\ ret.exc = "none"
        /\ ret'.op = "predict_proba" /\ ret'.exc = "none"
        /\ ret'.m = ret.m /\ ret'.X = ret.X)
          => ret.labels = [i \in 1..Len(ret.X.rows) |-> ArgMax(ret'.probs[i])]]_vars

\* C7: a read issued while a fit of the instance is running (a first fit or an
\* incremental one) raises the not-trained ValueError and alters neither the
\* weights nor the train/eval mode the remaining batches see.
C7_ReadDuringFitRaises ==
    [][\A m \in Instances :
         (pc[m] # "idle" /\ Read(m, AllBatches))
            => /\ ret'.exc = "ValueError"
               /\ weights' = weights
               /\ training' = training]_vars

\* C8: on a trained instance with no fit running, a read leaves the weights, the
\* accumulated parameter gradients, the train/eval mode, the trained flag and the
\* rule set unchanged.
C8_ReadsAreSideEffectFree ==
    [][\A m \in Instances :
         (is_trained[m] /\ pc[m] = "idle" /\ Read(m, AllBatches))
            => UNCHANGED <<weights, grads, training, is_trained, heap>>]_vars

C10_IncrementalFit ==
    [][\A m \in Instances :
         /\ (is_trained[m] /\ Started(m))
               => (pc'[m] = "loop" /\ weights'[m] = weights[m])
         /\ (is_trained[m] /\ pc[m] # "idle")
               => (weights'[m] \in {weights[m], weights[m] + 1, NaN}
                     /\ (weights[m] = NaN => weights'[m] = NaN))
         /\ (is_trained[m] /\ Completed(m)) => is_trained'[m]]_vars

\* C10 witness: with one update per fit, a second fit has returned on weights that
\* carry the update of the first.
C10_Witness ==
    /\ config.epochs = 1 /\ config.batch_size = MaxN
    /\ ret.op = "fit" /\ ret.exc = "none" /\ ret.m = 1
    /\ is_trained[1] /\ weights[1] = 2

IsPrefix(s, t) == Len(s) <= Len(t) /\ SubSeq(t, 1, Len(s)) = s

\* C11: add_knowledge succeeds in every state of the instance (Constructed,
\* Training, Trained, after a fit that raised), appends the rules of the delta in
\* their order to the end of the rule set, removes or reorders no rule already
\* present, and leaves the weights and the trained flag unchanged.
C11_AddKnowledgeAppends ==
    [][\A delta \in RuleLists :
         add_knowledge(1, delta)
            => /\ ret'.op = "add_knowledge" /\ ret'.exc = "none"
               /\ heap'[rules_ref[1]] = heap[rules_ref[1]] \o delta
               /\ \A l \in DOMAIN heap : IsPrefix(heap[l], heap'[l])
               /\ rules_ref' = rules_ref
               /\ weights' = weights
               /\ is_trained' = is_trained
               /\ pc' = pc]_vars

\* C11 witness: rules were added during an incremental fit of a Trained instance
\* and the rule set holds two different rules.
C11_Witness ==
    /\ ret.op = "add_knowledge" /\ ret.exc = "none"
    /\ is_trained[1] /\ pc[1] = "backward"
    /\ Len(heap[rules_ref[1]]) = MaxRules
    /\ heap[rules_ref[1]][1] # heap[rules_ref[1]][MaxRules]

\* C12: the robustness score evaluate returns (score[1] / score[2]) lies in [0, 1],
\* and it is 1.0 when the perturbation added to the inputs is zero.
C12_RobustnessScore ==
    (ret.op = "evaluate" /\ ret.exc = "none")
       => /\ 0 <= ret.score[1] /\ ret.score[1] <= ret.score[2]
          /\ (\A i \in DOMAIN ret.noise : ret.noise[i] = 0) => ret.score[1] = ret.score[2]

\* C14: in every forward pass, for every row and every reasoner result (a result
\* without a "features" vector included), the symbolic vector handed to the
\* integration layer has the length of the reasoner's output size.
C14_SymbolicVectorLength ==
    /\ \A i \in DOMAIN ret.symbolic : ret.symbolic[i] = OutputSize
    /\ (ret.op \in {"predict", "predict_proba"} /\ ret.exc = "none")
          => Len(ret.symbolic) = Len(ret.X.rows)
    /\ ret.op = "reason" => symbolic_features(ret.result).len = OutputSize

\* C14 witness: a reasoner result without a vector.
C14_Witness ==
    /\ ret.op = "reason" /\ ret.exc = "none"
    /\ "features" \notin ret.result.keys
    /\ ret.result.facts = <<NaN>>

\* C15: reason with a query that is neither "classify" nor
\* "explain_classification" does not fail: it returns the neutral result (the
\* facts and the query echoed, an empty rule trace, nothing else) and changes no
\* state of the reasoner.
C15_UnknownQueryNeutral ==
    [][\A x \in {0, 1, NaN} :
         ReasonCall(1, x, "other")
            => /\ ret'.op = "reason" /\ ret'.exc = "none"
               /\ ret'.result.keys = {"facts", "query", "rules_applied"}
               /\ ret'.result.facts = <<x>> /\ ret'.result.query = "other"
               /\ ret'.result.rules_applied = <<>>
               /\ UNCHANGED <<heap, rules_ref>>]_vars

\* C15 witness: an unknown query was answered on a reasoner that holds rules,
\* while a fit was running.
C15_Witness ==
    /\ ret.op = "reason" /\ ret.exc = "none" /\ ret.result.query = "other"
    /\ ret.result.rules_applied = <<>>
    /\ heap[rules_ref[1]] # <<>> /\ pc[1] = "backward"

\* C16: on a trained instance and a batch of N rows, predict returns exactly N
\* labels, each a class index in 0..num_classes-1.
C16_PredictShapeAndRange ==
    (ret.op = "predict" /\ ret.exc = "none")
       => /\ is_trained[ret.m]
          /\ Len(ret.labels) = Len(ret.X.rows)
          /\ \A i \in DOMAIN ret.labels : ret.labels[i] \in Classes

\* C16 witness: predict returned two different labels for a batch of two rows.
C16_Witness ==
    /\ ret.op = "predict" /\ ret.exc = "none"
    /\ Len(ret.X.rows) = 2 /\ Len(ret.labels) = 2
    /\ ret.labels[1] # ret.labels[2]

\* C17: on a trained instance, every row of predict_proba sums to 1.0 and every
\* entry lies in [0, 1].  Probabilities are in thousandths, each rounded down, so
\* a row sums to 1000 within one unit per class; the claim is stated for the
\* batches without a non-finite feature.
C17_ProbaRowsSumToOne ==
    (/\ ret.op = "predict_proba" /\ ret.exc = "none"
     /\ \A i \in DOMAIN ret.X.rows : ret.X.rows[i] # NaN)
       => \A i \in DOMAIN ret.probs :
             /\ \A k \in DOMAIN ret.probs[i] : 0 <= ret.probs[i][k] /\ ret.probs[i][k] <= 1000
             /\ ret.probs[i][1] + ret.probs[i][2] \in (1000 - Cardinality(Classes))..1000

CeilDiv(n, b) == IF n % b = 0 THEN n \div b ELSE n \div b + 1

\* Optimizer updates a fit of instance m applies when it meets no failure.
Updates(m, X) == config.epochs * CeilDiv(Len(X.rows), config.batch_size)

\* Updates applied when the batch the loop is at has been applied.
AtBatch(m) ==
    (epoch[m] + 1) * CeilDiv(Len(fitX[m].rows), config.batch_size)
        - CeilDiv(Cardinality(todo[m]), config.batch_size)

\* The count of updates applied is the position of the loop.
InEpochThenBatchOrder(m) ==
    /\ pc[m] = "loop" =>
          steps[m] = IF epoch[m] = config.epochs THEN Updates(m, fitX[m]) ELSE AtBatch(m)
    /\ pc[m] = "backward" => steps[m] + 1 = AtBatch(m)

\* C18: fit always terminates; with E epochs, N samples and batch size B a fit
\* that meets no failure applies exactly E * ceil(N / B) optimizer updates, one
\* after another in epoch-then-batch order, and the trained flag is set only
\* after the last one.
C18_FitTerminatesAfterAllUpdates ==
    /\ [](InEpochThenBatchOrder(1)
            /\ ((ret.op = "fit" /\ ret.exc = "none") => ret.updates = Updates(1, ret.X)))
    /\ [][/\ steps'[1] # steps[1] => (steps'[1] = steps[1] + 1 \/ steps'[1] = 0)
          /\ is_trained'[1] # is_trained[1]
                => (steps[1] = Updates(1, fitX[1]) /\ pc'[1] = "idle")]_vars
    /\ (pc[1] # "idle") ~> (pc[1] = "idle")

\* C18 witness: a fit of the most epochs over two batches, the second one partial
\* or full, has returned after all its updates.
C18_Witness ==
    /\ ret.op = "fit" /\ ret.exc = "none"
    /\ config.epochs = MaxEpochs /\ config.batch_size < Len(ret.X.rows)
    /\ ret.updates = MaxEpochs * MaxN
    /\ is_trained[1]

\* C19: fit changes only the encoder and fusion parameters: no step of a fit
\* changes the rule set of the reasoner or the list object it refers to, so the
\* rule set after fit is the one before it (the output size is the constant
\* OutputSize, which no action assigns).
C19_FitLeavesReasoner ==
    [][Fit(1, ReasonerFitData)
          => /\ heap' = heap
             /\ rules_ref' = rules_ref
             /\ config' = config]_vars

\* C19 witness: a fit with updates has returned on an instance whose reasoner
\* holds rules.
C19_Witness ==
    /\ ret.op = "fit" /\ ret.exc = "none" /\ ret.updates > 0
    /\ Len(heap[rules_ref[1]]) = MaxRules

\* C20: explain on a batch of N >= 1 rows issues exactly one reasoner call, with
\* the explain query, on row 0, and the rule trace and the confidence of the
\* returned explanation (its symbolic part and its integrated part) are those of
\* that call.
C20_ExplainSingleCall ==
    (ret.op = "explain" /\ ret.exc = "none")
       => /\ Len(ret.X.rows) >= 1
          /\ Len(ret.calls) = 1
          /\ ret.calls[1].query = "explain_classification"
          /\ ret.calls[1].facts = <<ret.X.rows[1]>>
          /\ ret.rules = ret.calls[1].rules_applied
          /\ ret.score = <<ret.calls[1].confidence>>
          /\ ret.integrated.symbolic_rules = ret.calls[1].rules_applied
          /\ ret.integrated.confidence = ret.calls[1].confidence

\* C20 witness: an explanation of a batch of two different rows.
C20_Witness ==
    /\ ret.op = "explain" /\ ret.exc = "none"
    /\ Len(ret.X.rows) = 2 /\ ret.X.rows[1] # ret.X.rows[2]
    /\ ret.rules # <<>>

\* C21: explain_reasoning is total over the reasoner's own results: for every
\* query (classify, explain, unknown) and every facts list,
\* explain_reasoning(reason(facts, query)) returns a string and does not fail.
C21_ExplainReasoningTotal ==
    ret.op = "explain_reasoning" => (ret.exc = "none" /\ ret.text # <<>>)

\* C22: the trained flag is monotonic: once true, no later operation (a fit that
\* succeeds or raises, predict, explain, evaluate, add_knowledge, a reasoner
\* call) sets it back to false.
C22_TrainedFlagMonotonic ==
    [][\A m \in Instances : is_trained[m] => is_trained'[m]]_vars

\* C22 witness: a later fit on a Trained instance has raised and the flag is
\* still set.
C22_Witness ==
    /\ ret.op = "fit" /\ ret.exc = "RuntimeError" /\ ret.m = 1
    /\ is_trained[1] /\ heap[rules_ref[1]] # <<>>

C24_RunExperimentClosesRun ==
    (ret.op = "run_experiment" /\ ret.run_id # 0)
       => /\ ret.exc = "none"
          /\ ret.detail \in {"success", "failed"}
          /\ current_run = 0
          /\ mlflow.ended[ret.run_id] = 1
          /\ mlflow.status[ret.run_id] =
                IF ret.detail = "success" THEN "FINISHED" ELSE "FAILED"

\* A stored user with the username or the email of a register request.
Duplicate(users, request) ==
    \E i \in 1..Len(users) :
        users[i].username = request.username \/ users[i].email = request.email

UniqueUsers ==
    \A i, j \in 1..Len(mock_users) :
        i # j => /\ mock_users[i].username # mock_users[j].username
                 /\ mock_users[i].email # mock_users[j].email

DuplicateRegisterRejected ==
    \A username \in Usernames, email \in Emails, password \in Passwords :
        (Register(username, email, password)
           /\ Duplicate(mock_users, [username |-> username, email |-> email]))
        => /\ ret'.status = 400
           /\ ret'.detail = "User already exists"
           /\ mock_users' = mock_users

\* C25: after any sequence of register requests no two stored users share a
\* username or an email; a register request that duplicates either is answered
\* 400 "User already exists" and leaves the store unchanged.
C25_RegisterKeepsUsersUnique == []UniqueUsers /\ [][DuplicateRegisterRejected]_vars

\* C25 witness: a register request with a new username and a stored email was
\* rejected.
C25_Witness ==
    /\ ret.op = "register" /\ ret.status = 400
    /\ Len(mock_users) = 1
    /\ mock_users[1].username # ret.request.username
    /\ mock_users[1].email = ret.request.email

\* C26: a register request with a new username and a new email adds exactly one
\* user and is answered with a bearer access token for that username; a register
\* request that is not answered with a token leaves the store unchanged.
C26_RegisterAddsUserAndToken ==
    [][\A username \in Usernames, email \in Emails, password \in Passwords :
          Register(username, email, password)
          => /\ ~Duplicate(mock_users, [username |-> username, email |-> email])
                  => /\ Len(mock_users') = Len(mock_users) + 1
                     /\ ret'.status = 200
                     /\ ret'.access_token # NoToken
                     /\ ret'.access_token.sub = username
             /\ ret'.access_token = NoToken => mock_users' = mock_users]_vars

\* C27: login issues an access token only for a registered username with the
\* password given at registration and answers 401 "Invalid credentials"
\* otherwise: here for a login that follows the registration of its username
\* with another password, and for a login of an unregistered username.
C27_LoginChecksCredentials ==
    [][\A username \in Usernames, password \in Passwords :
          (/\ Login(username, password)
           /\ \/ UserNamed(mock_users, username) = {}
              \/ /\ ret.op = "register" /\ ret.status # 400
                 /\ ret.request.username = username
                 /\ ret.request.password # password)
          => /\ ret'.status = 401
             /\ ret'.detail = "Invalid credentials"
             /\ ret'.access_token = NoToken]_vars

\* C28: GET /progress/{user_id} answers a registered user who asks for their
\* own user_id with the record, and a registered user who is not an admin and
\* asks for another id with 403 "Access denied".
C28_ProgressOwnOrDenied ==
    (/\ ret.op = "get_user_progress"
     /\ UserNamed(mock_users, ret.request.credentials.sub) # {})
    => LET current_user == FirstNamed(mock_users, ret.request.credentials.sub)
       IN  IF current_user.id = <<ret.request.user_id>>
           THEN ret.status = 200
           ELSE current_user.role # "admin"
                   => (ret.status = 403 /\ ret.detail = "Access denied")

\* C29: POST /predict with a model name that is not in the registry answers 404
\* "Model '<name>' not found", as GET /models/{model_name}/explain does.
C29_UnknownModelNotFound ==
    (/\ ret.op \in {"predict", "explain_model"}
     /\ ret.request.model_name \notin ml_components)
    => /\ ret.status = 404
       /\ ret.detail = ModelNotFound(ret.request.model_name)

\* C30: GET /health of the API service and of the education service answers 200
\* with status "healthy" in every state, whatever the database connection and
\* the model registry.
C30_HealthAlwaysHealthy ==
    ret.op \in {"health_check", "education_health_check"}
    => (ret.status = 200 /\ ret.health = "healthy")

\* C30 witness: the API service answered /health with no database connection
\* and an empty model registry.
C30_Witness ==
    /\ ret.op = "health_check"
    /\ database_connection = None /\ ml_components = {}
    /\ ret.components = <<"unhealthy", "unhealthy">>

====
